---------------------------- MODULE Spec2Model ----------------------------
(***************************************************************************)
(* Flute: the vocabulary store of server/src/models/books.py.              *)
(*                                                                         *)
(* The tables books, chapters, tokens, book_vocab, token_progress and      *)
(* book_totals are sets of rows.  A row write is accepted exactly when the *)
(* constraints the schema declares accept it (primary keys, unique index,  *)
(* CHECK constraints, foreign keys).  CHECK constraints are evaluated with *)
(* SQL's three truth values: a CHECK rejects a row only when its           *)
(* expression is false, so an expression that is NULL lets the row in.     *)
(*                                                                         *)
(* The operations that the schema serves (the token registry's resolve,    *)
(* reindex, the totals aggregator and the learning-progress transitions)   *)
(* are modelled from the design document; each of them writes through the  *)
(* schema's constraints.                                                   *)
(***************************************************************************)
EXTENDS Integers, FiniteSets, Sequences, TLC

VARIABLES
    books,           \* set of book ids (rows of "books")
    chapters,        \* rows [book_id, chapter_number] of "chapters"
    tokens,          \* rows [id, language_id, norm, kind] of "tokens"
    book_vocab,      \* rows [book_id, token_id, token_count] of "book_vocab"
    token_progress,  \* rows [token_id, status, learning_stage] of "token_progress"
    book_totals,     \* rows [book_id, total_tokens, total_types] of "book_totals"
    fk_enforced,     \* whether the SQLite connection enforces foreign keys
    callers,         \* the resolve() calls in flight, one record per caller
    tx,              \* the reindex transaction of each book
    indexed,         \* per book, the token stream of its last committed reindex
    last_op          \* the last operation: [op, key, arg, outcome, before]

vars == <<books, chapters, tokens, book_vocab, token_progress, book_totals,
          fk_enforced, callers, tx, indexed, last_op>>

(***************************************************************************)
(* The rows of the tables, column by column.                               *)
(***************************************************************************)
TokenRow(id, language_id, norm, kind) ==
    [id |-> id, language_id |-> language_id, norm |-> norm, kind |-> kind]

ChapterRow(book_id, chapter_number) ==
    [book_id |-> book_id, chapter_number |-> chapter_number]

VocabRow(book_id, token_id, token_count) ==
    [book_id |-> book_id, token_id |-> token_id, token_count |-> token_count]

ProgressRow(token_id, status, learning_stage) ==
    [token_id |-> token_id, status |-> status, learning_stage |-> learning_stage]

TotalsRow(book_id, total_tokens, total_types) ==
    [book_id |-> book_id, total_tokens |-> total_tokens,
     total_types |-> total_types]

\* The record of the last operation.
Op(op, key, arg, outcome, before) ==
    [op |-> op, key |-> key, arg |-> arg, outcome |-> outcome, before |-> before]

(***************************************************************************)
(* Bounds of the model.                                                    *)
(***************************************************************************)
NumTokens == 2
NumBooks == 2
NumCallers == 2
MaxStreamLen == 2
MaxTotal == 1
NumIndexed == 1

TokenIds == 1..NumTokens
BookIds == 1..NumBooks
CallerIds == 1..NumCallers
IndexedBooks == 1..NumIndexed

(***************************************************************************)
(* Nullable columns: NULL is the empty tuple, a value n is <<n>>.          *)
(***************************************************************************)
Null == << >>
Val(n) == <<n>>
IsNull(v) == v = Null
Get(v) == v[1]

(***************************************************************************)
(* SQL's three-valued logic, as SQLite evaluates a CHECK expression.       *)
(***************************************************************************)
SqlOf(b) == IF b THEN "true" ELSE "false"

SqlOr(a, b) ==
    IF a = "true" \/ b = "true" THEN "true"
    ELSE IF a = "false" /\ b = "false" THEN "false"
    ELSE "unknown"

SqlNe(v, n) == IF IsNull(v) THEN "unknown" ELSE SqlOf(Get(v) # n)

SqlIn(v, S) == IF IsNull(v) THEN "unknown" ELSE SqlOf(Get(v) \in S)

SqlBetween(v, lo, hi) ==
    IF IsNull(v) THEN "unknown" ELSE SqlOf(lo <= Get(v) /\ Get(v) <= hi)

\* A CHECK constraint is violated only when its expression is false.
CheckPasses(t) == t # "false"

(***************************************************************************)
(* Enumerations.                                                           *)
(***************************************************************************)
WORD == 1
PHRASE == 2

LEARNING == 1
KNOWN == 2
IGNORE == 3

NUM_LEARNING_STAGES_NoCap == 5 + 1
NUM_LEARNING_STAGES == 5

Min(a, b) == IF a <= b THEN a ELSE b

(***************************************************************************)
(* token_progress: its constraints.                                        *)
(***************************************************************************)
ck_token_progress_status_valid(row) ==
    CheckPasses(SqlIn(Val(row.status), {1, 2, 3}))

ck_token_progress_learning_stage_valid(row) ==
    CheckPasses(SqlOr(SqlNe(Val(row.status), 1),
                      SqlBetween(row.learning_stage, 1, 5)))

TokenProgressAccepts(row) ==
    /\ ck_token_progress_status_valid(row)
    /\ ck_token_progress_learning_stage_valid(row)

\* The rows of token t (the primary key leaves at most one).
ProgressOf(tp, t) == {r \in tp : r.token_id = t}

\* INSERT or UPDATE of token t's row; the table is unchanged when the row is
\* rejected.
WriteProgress(tp, row) ==
    IF TokenProgressAccepts(row)
    THEN (tp \ ProgressOf(tp, row.token_id)) \cup {row}
    ELSE tp

Outcome(ok) == IF ok THEN "ok" ELSE "ConstraintViolation"

Others_Progress ==
    UNCHANGED <<books, chapters, tokens, book_vocab, book_totals, fk_enforced,
                callers, tx, indexed>>

(***************************************************************************)
(* The learning-progress tracker.                                          *)
(***************************************************************************)
\* The transition's target row is written through the table's constraints.
Transition(name, t, row) ==
    /\ token_progress' = WriteProgress(token_progress, row)
    /\ last_op' = Op(name, t, row, Outcome(TokenProgressAccepts(row)),
                     ProgressOf(token_progress, t))
    /\ Others_Progress

Rejected(name, t) ==
    /\ token_progress' = token_progress
    /\ last_op' = Op(name, t, Null, "ValidationError",
                     ProgressOf(token_progress, t))
    /\ Others_Progress

FirstExposure(t) ==
    /\ ProgressOf(token_progress, t) = {}
    /\ Transition("firstExposure", t, ProgressRow(t, LEARNING, Val(1)))

MarkKnown(t) ==
    /\ ProgressOf(token_progress, t) # {}
    /\ Transition("markKnown", t, ProgressRow(t, KNOWN, Null))

MarkIgnore(t) ==
    /\ ProgressOf(token_progress, t) # {}
    /\ Transition("markIgnore", t, ProgressRow(t, IGNORE, Null))

Reset(t) ==
    /\ ProgressOf(token_progress, t) # {}
    /\ Transition("reset", t, ProgressRow(t, LEARNING, Val(1)))

Advance(t) ==
    /\ ProgressOf(token_progress, t) # {}
    /\ LET cur == CHOOSE r \in ProgressOf(token_progress, t) : TRUE
       IN IF cur.status = LEARNING /\ ~IsNull(cur.learning_stage)
          THEN Transition("advance", t,
                   ProgressRow(t, LEARNING,
                       Val(Min(Get(cur.learning_stage) + 1, NUM_LEARNING_STAGES))))
          ELSE Rejected("advance", t)

\* A row written straight to the table (INSERT or UPDATE of status and
\* learning_stage), accepted or rejected by the table's constraints alone.
StatusInputs == 0..4
StageInputs == {Null} \cup {Val(n) : n \in {0, 1, 3, 5, 6}}

DirectWrite(t, status, stage) ==
    Transition("write", t, ProgressRow(t, status, stage))

(***************************************************************************)
(* tokens: its constraints.                                                *)
(***************************************************************************)
LanguageIds == {1, 2}
Norms == {"cat"}
KindInputs == {WORD, PHRASE, 3}

ck_token_kind_valid(row) == CheckPasses(SqlIn(Val(row.kind), {1, 2}))

\* The index is declared without unique=True.
ix_token_not_unique(rows, row) == TRUE

\* Index("ix_token_language_id_norm", "language_id", "norm", unique=True)
ix_token_language_id_norm(rows, row) ==
    ~\E r \in rows : r.language_id = row.language_id /\ r.norm = row.norm

TokensAccept(rows, row) ==
    /\ ~\E r \in rows : r.id = row.id
    /\ ck_token_kind_valid(row)
    /\ ix_token_language_id_norm(rows, row)

\* The integer primary key: SQLite gives a new row the largest id plus one.
NextTokenId(rows) ==
    IF rows = {} THEN 1
    ELSE (CHOOSE i \in {r.id : r \in rows} : \A r \in rows : r.id <= i) + 1

TokensNamed(rows, language, norm) ==
    {r \in rows : r.language_id = language /\ r.norm = norm}

(***************************************************************************)
(* The token registry: resolve(language, norm, kind), one statement per    *)
(* step so that callers interleave: select, insert if absent, and read     *)
(* the winner's row when the insert hits the unique index.                 *)
(***************************************************************************)
Others_Registry ==
    UNCHANGED <<books, chapters, book_vocab, token_progress, book_totals,
                fk_enforced, tx, indexed, last_op>>

Call(c) == callers[c]

Found(id) == [id |-> id, status |-> "ok"]
Failed(what) == [id |-> 0, status |-> what]

\* What a read of the (language, norm) row gives the caller.
ReadToken(rows, call) ==
    LET r == CHOOSE x \in TokensNamed(rows, call.language, call.norm) : TRUE
    IN IF r.kind = call.kind THEN Found(r.id) ELSE Failed("ValidationError")

Finish(c, result) ==
    callers' = [callers EXCEPT ![c] = [Call(c) EXCEPT !.pc = "done",
                                                       !.result = result]]

ResolveCall(c, language, norm, kind) ==
    /\ Call(c).pc = "idle"
    /\ callers' = [callers EXCEPT ![c] =
          [pc |-> IF kind \in {WORD, PHRASE} THEN "select" ELSE "done",
           norm |-> norm, kind |-> kind, language |-> language,
           result |-> IF kind \in {WORD, PHRASE} THEN Failed("pending")
                      ELSE Failed("ValidationError"),
           raced |-> FALSE]]
    /\ UNCHANGED tokens
    /\ Others_Registry

ResolveSelect(c) ==
    /\ Call(c).pc = "select"
    /\ IF TokensNamed(tokens, Call(c).language, Call(c).norm) # {}
       THEN Finish(c, ReadToken(tokens, Call(c)))
       ELSE callers' = [callers EXCEPT ![c].pc = "insert"]
    /\ UNCHANGED tokens
    /\ Others_Registry

ResolveInsert(c) ==
    /\ Call(c).pc = "insert"
    /\ LET row == TokenRow(NextTokenId(tokens), Call(c).language, Call(c).norm,
                           Call(c).kind)
       IN IF TokensAccept(tokens, row)
          THEN /\ tokens' = tokens \cup {row}
               /\ Finish(c, Found(row.id))
          ELSE /\ tokens' = tokens
               /\ callers' = [callers EXCEPT ![c].pc = "reread",
                                             ![c].raced = TRUE]
    /\ Others_Registry

ResolveReread(c) ==
    /\ Call(c).pc = "reread"
    /\ Finish(c, ReadToken(tokens, Call(c)))
    /\ UNCHANGED tokens
    /\ Others_Registry

ResolveReturn(c) ==
    /\ Call(c).pc = "done"
    /\ callers' = [callers EXCEPT ![c] = [pc |-> "idle"]]
    /\ UNCHANGED tokens
    /\ Others_Registry

(***************************************************************************)
(* books, chapters, book_vocab and book_totals: their constraints.         *)
(***************************************************************************)
\* A foreign key is checked only on a connection that enforces foreign keys.
ForeignKeyHolds(enforced, parent_ids, id) == enforced => id \in parent_ids

\* Index("ix_chapter_book_id_chapter_number", ..., unique=True) and
\* ForeignKey(Book.id).
ChaptersAccept(rows, row, enforced, book_ids) ==
    /\ row \notin rows
    /\ ForeignKeyHolds(enforced, book_ids, row.book_id)

VocabOf(rows, b) == {r \in rows : r.book_id = b}

\* The composite primary key (book_id, token_id) and the two foreign keys.
\* The table declares no CHECK on token_count.
BookVocabAccepts(rows, row, enforced, book_ids, token_ids) ==
    /\ ~\E r \in rows : r.book_id = row.book_id /\ r.token_id = row.token_id
    /\ ForeignKeyHolds(enforced, book_ids, row.book_id)
    /\ ForeignKeyHolds(enforced, token_ids, row.token_id)

TotalsOf(rows, b) == {r \in rows : r.book_id = b}

\* ON CONFLICT DO UPDATE that adds to the stored totals.
upsert_accumulate(rows, book_id, total_tokens, total_types) ==
    IF TotalsOf(rows, book_id) # {}
    THEN {IF r.book_id = book_id
          THEN [r EXCEPT !.total_tokens = @ + total_tokens,
                         !.total_types = @ + total_types]
          ELSE r : r \in rows}
    ELSE rows \cup {TotalsRow(book_id, total_tokens, total_types)}

\* ON CONFLICT DO UPDATE whose set_ names total_tokens alone.
upsert_tokens_only(rows, book_id, total_tokens, total_types) ==
    IF TotalsOf(rows, book_id) # {}
    THEN {IF r.book_id = book_id
          THEN [r EXCEPT !.total_tokens = total_tokens]
          ELSE r : r \in rows}
    ELSE rows \cup {TotalsRow(book_id, total_tokens, total_types)}

\* ON CONFLICT DO NOTHING in place of DO UPDATE.
upsert_do_nothing(rows, book_id, total_tokens, total_types) ==
    IF TotalsOf(rows, book_id) # {} THEN rows
    ELSE rows \cup {TotalsRow(book_id, total_tokens, total_types)}

\* BookTotals.upsert_stmt, executed on the rows of book_totals: INSERT the
\* row; ON CONFLICT (book_id) DO UPDATE SET total_tokens, total_types.
upsert_stmt(rows, book_id, total_tokens, total_types) ==
    IF TotalsOf(rows, book_id) # {}
    THEN {IF r.book_id = book_id
          THEN [r EXCEPT !.total_tokens = total_tokens,
                         !.total_types = total_types]
          ELSE r : r \in rows}
    ELSE rows \cup {TotalsRow(book_id, total_tokens, total_types)}

(***************************************************************************)
(* Row writes on the store.                                                *)
(***************************************************************************)
ChapterNumbers == {1}
CountInputs == {0, 1}
TotalInputs == 0..MaxTotal

Others_Store ==
    UNCHANGED <<tokens, token_progress, fk_enforced, callers, tx, indexed>>

AddBook(b) ==
    /\ b \notin books
    /\ books' = books \cup {b}
    /\ last_op' = Op("addBook", b, Null, "ok", {})
    /\ UNCHANGED <<chapters, book_vocab, book_totals>>
    /\ Others_Store

AddChapter(b, n) ==
    LET row == ChapterRow(b, n)
        ok == ChaptersAccept(chapters, row, fk_enforced, books)
    IN /\ chapters' = IF ok THEN chapters \cup {row} ELSE chapters
       /\ last_op' = Op("addChapter", b, row, Outcome(ok), {})
       /\ UNCHANGED <<books, book_vocab, book_totals>>
       /\ Others_Store

InsertVocab(b, t, n) ==
    LET row == VocabRow(b, t, n)
        ok == BookVocabAccepts(book_vocab, row, fk_enforced, books,
                               {r.id : r \in tokens})
    IN /\ book_vocab' = IF ok THEN book_vocab \cup {row} ELSE book_vocab
       /\ last_op' = Op("insertVocab", b, row, Outcome(ok), {})
       /\ UNCHANGED <<books, chapters, book_totals>>
       /\ Others_Store

\* A plain INSERT of a book_totals row: the primary key book_id and the
\* foreign key to books decide it.
BookTotalsAccepts(rows, row, enforced, book_ids) ==
    /\ TotalsOf(rows, row.book_id) = {}
    /\ ForeignKeyHolds(enforced, book_ids, row.book_id)

InsertTotals(b, total_tokens, total_types) ==
    LET row == TotalsRow(b, total_tokens, total_types)
        ok == BookTotalsAccepts(book_totals, row, fk_enforced, books)
    IN /\ book_totals' = IF ok THEN book_totals \cup {row} ELSE book_totals
       /\ last_op' = Op("insertTotals", b, row, Outcome(ok), {})
       /\ UNCHANGED <<books, chapters, book_vocab>>
       /\ Others_Store

\* session.execute(BookTotals.upsert_stmt(b, total_tokens, total_types)).
ExecUpsert(b, total_tokens, total_types) ==
    LET ok == ForeignKeyHolds(fk_enforced, books, b)
    IN /\ book_totals' = IF ok
                         THEN upsert_stmt(book_totals, b, total_tokens, total_types)
                         ELSE book_totals
       /\ last_op' = Op("upsert", b, TotalsRow(b, total_tokens, total_types),
                        Outcome(ok),
                        \E r \in TotalsOf(book_totals, b) :
                            /\ r.total_tokens # total_tokens
                            /\ r.total_types # total_types)
       /\ UNCHANGED <<books, chapters, book_vocab>>
       /\ Others_Store

\* session.delete(book) and commit.  The ORM deletes the book's chapters
\* (Book.chapters cascades), then the book.  A connection that enforces
\* foreign keys deletes the book_totals row (ondelete="CASCADE") and refuses
\* the delete while a book_vocab row references the book (its foreign key
\* names no ON DELETE action), rolling the transaction back; a connection
\* that does not enforce them leaves both tables as they are.
DeleteBook(b) ==
    /\ b \in books
    /\ LET refused == fk_enforced /\ VocabOf(book_vocab, b) # {}
       IN /\ books' = IF refused THEN books ELSE books \ {b}
          /\ chapters' = IF refused THEN chapters
                         ELSE {r \in chapters : r.book_id # b}
          /\ book_totals' = IF fk_enforced /\ ~refused
                            THEN book_totals \ TotalsOf(book_totals, b)
                            ELSE book_totals
          /\ last_op' = Op("deleteBook", b, Null, Outcome(~refused),
                           [tokens |-> tokens, token_progress |-> token_progress])
    /\ UNCHANGED book_vocab
    /\ Others_Store

(***************************************************************************)
(* The inverted index builder: reindex(book, token stream), and the totals *)
(* aggregator it ends with.  A reindex is one transaction: its writes are  *)
(* staged in tx[b] and reach book_vocab and book_totals at the commit.     *)
(***************************************************************************)
StreamNorms == {"the", "cat"}
Malformed == "<malformed>"
StreamInputs ==
    UNION {[1..n -> StreamNorms \cup {Malformed}] : n \in 0..MaxStreamLen}

\* Every book of the model is written in language 1.
BookLanguage(b) == 1

Others_Index ==
    UNCHANGED <<books, chapters, token_progress, fk_enforced, callers, last_op>>

Tx(b) == tx[b]

\* resolve() run to its end by one caller: the existing row, else a new one.
ResolveNow(rows, call) ==
    IF TokensNamed(rows, call.language, call.norm) # {}
    THEN [tokens |-> rows, result |-> ReadToken(rows, call)]
    ELSE LET row == TokenRow(NextTokenId(rows), call.language, call.norm, call.kind)
         IN IF TokensAccept(rows, row)
            THEN [tokens |-> rows \cup {row}, result |-> Found(row.id)]
            ELSE [tokens |-> rows, result |-> Failed("ValidationError")]

\* One more occurrence of token t in book b's count map.
CountOne(counts, b, t) ==
    IF \E r \in counts : r.token_id = t
    THEN {IF r.token_id = t THEN [r EXCEPT !.token_count = @ + 1] ELSE r : r \in counts}
    ELSE counts \cup {VocabRow(b, t, 1)}

\* Rows of the old set whose token is absent from the new map.
StaleRows(old, counts) ==
    {r \in old : ~\E n \in counts : n.token_id = r.token_id}

\* Rows of the new map absent from the old set, or there with another count.
ChangedRows(old, counts) == counts \ old

\* An upsert of book_vocab rows: each replaces the row of its key.
UpsertVocab(rows, changed) ==
    {r \in rows : ~\E n \in changed : n.book_id = r.book_id /\ n.token_id = r.token_id}
        \cup changed

RECURSIVE SumCounts(_)
SumCounts(rows) ==
    IF rows = {} THEN 0
    ELSE LET r == CHOOSE x \in rows : TRUE
         IN r.token_count + SumCounts(rows \ {r})

\* A write made inside the transaction reaches the table at once.
Autocommitted(committed, written) == written

\* What readers of a table see after a write made inside a transaction that
\* has not committed: the committed rows.
Staged(committed, written) == committed

\* Table `rows` with book b's rows replaced by `mine`.
WithBookRows(rows, b, mine) == {r \in rows : r.book_id # b} \cup mine

Snapshot(b) ==
    [vocab |-> VocabOf(book_vocab, b), totals |-> TotalsOf(book_totals, b)]

\* SQLite admits one write transaction at a time: a reindex begins when no
\* other is under way.
ReindexBegin(b, stream) ==
    /\ b \in books
    /\ \A other \in IndexedBooks : Tx(other).pc = "idle"
    /\ tx' = [tx EXCEPT ![b] =
          [pc |-> IF stream = << >> THEN "delete" ELSE "resolve",
           counts |-> {},
           vocab |-> VocabOf(book_vocab, b), totals |-> TotalsOf(book_totals, b),
           stream |-> stream, pos |-> 1, writes |-> 0, pre |-> Snapshot(b)]]
    /\ UNCHANGED <<tokens, book_vocab, book_totals, indexed>>
    /\ Others_Index

\* The transaction ends without a commit: its staged writes are dropped.
Rollback(b) ==
    /\ tx' = [tx EXCEPT ![b] = [pc |-> "idle"]]
    /\ UNCHANGED <<book_vocab, book_totals, indexed>>

\* Step 1: the next token of the stream is normalised and resolved.
ReindexResolve(b) ==
    /\ Tx(b).pc = "resolve"
    /\ LET e == Tx(b).stream[Tx(b).pos]
           got == ResolveNow(tokens, [norm |-> e, kind |-> WORD,
                                      language |-> BookLanguage(b)])
       IN IF e = Malformed
          THEN /\ Rollback(b)
               /\ UNCHANGED tokens
          ELSE IF got.result.status # "ok"
          THEN /\ Rollback(b)
               /\ UNCHANGED tokens
          ELSE /\ tokens' = got.tokens
               /\ tx' = [tx EXCEPT
                     ![b].counts = CountOne(Tx(b).counts, b, got.result.id),
                     ![b].pos = @ + 1,
                     ![b].pc = IF Tx(b).pos = Len(Tx(b).stream)
                               THEN "delete" ELSE "resolve"]
               /\ UNCHANGED <<book_vocab, book_totals, indexed>>
    /\ Others_Index

\* Steps 2 and 3, deletes: the rows whose token left the book.
ReindexDelete(b) ==
    /\ Tx(b).pc = "delete"
    /\ LET stale == StaleRows(Tx(b).vocab, Tx(b).counts)
           mine == Tx(b).vocab \ stale
       IN /\ tx' = [tx EXCEPT ![b].vocab = mine,
                              ![b].writes = @ + Cardinality(stale),
                              ![b].pc = "upsert"]
          /\ book_vocab' = Staged(book_vocab, WithBookRows(book_vocab, b, mine))
    /\ UNCHANGED <<tokens, book_totals, indexed>>
    /\ Others_Index

\* Step 3, upserts: the rows that are new or whose count changed.
ReindexUpsert(b) ==
    /\ Tx(b).pc = "upsert"
    /\ LET changed == ChangedRows(Tx(b).vocab, Tx(b).counts)
           mine == UpsertVocab(Tx(b).vocab, changed)
       IN /\ tx' = [tx EXCEPT ![b].vocab = mine,
                              ![b].writes = @ + Cardinality(changed),
                              ![b].pc = "totals"]
          /\ book_vocab' = Staged(book_vocab, WithBookRows(book_vocab, b, mine))
    /\ UNCHANGED <<tokens, book_totals, indexed>>
    /\ Others_Index

\* Step 5: recompute(book), the totals of the rows the transaction sees.
ReindexTotals(b) ==
    /\ Tx(b).pc = "totals"
    /\ LET mine == upsert_stmt(Tx(b).totals, b, SumCounts(Tx(b).vocab),
                               Cardinality(Tx(b).vocab))
       IN /\ tx' = [tx EXCEPT ![b].totals = mine, ![b].pc = "commit"]
          /\ book_totals' = Staged(book_totals, WithBookRows(book_totals, b, mine))
    /\ UNCHANGED <<tokens, book_vocab, indexed>>
    /\ Others_Index

ReindexCommit(b) ==
    /\ Tx(b).pc = "commit"
    /\ book_vocab' = WithBookRows(book_vocab, b, Tx(b).vocab)
    /\ book_totals' = WithBookRows(book_totals, b, Tx(b).totals)
    /\ indexed' = [indexed EXCEPT ![b] = Val(Tx(b).stream)]
    /\ tx' = [tx EXCEPT ![b] = [pc |-> "idle"]]
    /\ UNCHANGED tokens
    /\ Others_Index

\* The caller cancels the reindex before its commit.
ReindexCancel(b) ==
    /\ Tx(b).pc \notin {"idle"}
    /\ Rollback(b)
    /\ UNCHANGED tokens
    /\ Others_Index

Init ==
    /\ books = {}
    /\ chapters = {}
    /\ tokens = {}
    /\ book_vocab = {}
    /\ token_progress = {}
    /\ book_totals = {}
    /\ fk_enforced \in BOOLEAN
    /\ callers = [c \in CallerIds |-> [pc |-> "idle"]]
    /\ tx = [b \in IndexedBooks |-> [pc |-> "idle"]]
    /\ indexed = [b \in IndexedBooks |-> Null]
    /\ last_op = Op("none", 0, Null, "ok", {})

NextTracker ==
    \E t \in TokenIds :
        \/ FirstExposure(t)
        \/ MarkKnown(t)
        \/ MarkIgnore(t)
        \/ Advance(t)
        \/ Reset(t)

NextProgress ==
    \/ NextTracker
    \/ \E t \in TokenIds, s \in StatusInputs, g \in StageInputs : DirectWrite(t, s, g)

NextRegistry ==
    \E c \in CallerIds :
        \/ \E l \in LanguageIds, n \in Norms, k \in KindInputs : ResolveCall(c, l, n, k)
        \/ ResolveSelect(c)
        \/ ResolveInsert(c)
        \/ ResolveReread(c)
        \/ ResolveReturn(c)

SpecRegistry == Init /\ [][NextRegistry]_vars

\* The store with two tokens registered.
InitStore ==
    /\ books = {}
    /\ chapters = {}
    /\ tokens = {TokenRow(1, 1, "cat", WORD), TokenRow(2, 2, "cat", PHRASE)}
    /\ book_vocab = {}
    /\ token_progress = {}
    /\ book_totals = {}
    /\ fk_enforced \in BOOLEAN
    /\ callers = [c \in CallerIds |-> [pc |-> "idle"]]
    /\ tx = [b \in IndexedBooks |-> [pc |-> "idle"]]
    /\ indexed = [b \in IndexedBooks |-> Null]
    /\ last_op = Op("none", 0, Null, "ok", {})

NextTotals ==
    \E b \in BookIds :
        \/ AddBook(b)
        \/ \E n \in TotalInputs, m \in TotalInputs : ExecUpsert(b, n, m)

NextStore ==
    \E b \in BookIds :
        \/ AddBook(b)
        \/ \E n \in ChapterNumbers : AddChapter(b, n)
        \/ \E t \in TokenIds, n \in CountInputs : InsertVocab(b, t, n)
        \/ \E n \in {0, 1} : InsertTotals(b, n, n)
        \/ DeleteBook(b)

SpecTotals == InitStore /\ [][NextTotals]_vars

SpecStore == InitStore /\ [][NextStore]_vars

\* The store with its books created and nothing indexed.
InitIndex ==
    /\ books = IndexedBooks
    /\ chapters = {}
    /\ tokens = {}
    /\ book_vocab = {}
    /\ token_progress = {}
    /\ book_totals = {}
    /\ fk_enforced \in BOOLEAN
    /\ callers = [c \in CallerIds |-> [pc |-> "idle"]]
    /\ tx = [b \in IndexedBooks |-> [pc |-> "idle"]]
    /\ indexed = [b \in IndexedBooks |-> Null]
    /\ last_op = Op("none", 0, Null, "ok", {})

NextIndex ==
    \E b \in IndexedBooks :
        \/ \E stream \in StreamInputs : ReindexBegin(b, stream)
        \/ ReindexResolve(b)
        \/ ReindexDelete(b)
        \/ ReindexUpsert(b)
        \/ ReindexTotals(b)
        \/ ReindexCommit(b)
        \/ ReindexCancel(b)

SpecIndex == InitIndex /\ [][NextIndex]_vars

SpecTracker == Init /\ [][NextTracker]_vars

SpecProgress == Init /\ [][NextProgress]_vars

(***************************************************************************)
(* Claims about token_progress.                                            *)
(***************************************************************************)
StageSet(r) == ~IsNull(r.learning_stage)

\* C1: in every committed state of token_progress, every row has
\* learning_stage non-null if and only if status = LEARNING, and a non-null
\* learning_stage lies in 1..5.
C1_StageIffLearning ==
    \A r \in token_progress :
        /\ StageSet(r) <=> r.status = LEARNING
        /\ StageSet(r) => Get(r.learning_stage) \in 1..5

\* C6: a write that sets a LEARNING row's status to KNOWN or IGNORE while its
\* learning_stage stays set is rejected as a ConstraintViolation and the
\* stored row keeps its status and learning_stage.
C6_StatusChangeWithStageRejected ==
    (/\ last_op.op = "write"
     /\ \E r \in last_op.before :
            /\ r.status = LEARNING
            /\ StageSet(r)
            /\ last_op.arg.learning_stage = r.learning_stage
     /\ last_op.arg.status \in {KNOWN, IGNORE})
    => /\ last_op.outcome = "ConstraintViolation"
       /\ ProgressOf(token_progress, last_op.key) = last_op.before

\* C7: advance on a LEARNING token at stage s leaves it LEARNING at stage
\* min(s + 1, 5) without error (so at stage 5 it stays at LEARNING stage 5
\* and is not promoted); advance on a KNOWN or IGNORE token is refused and
\* changes nothing; no stage ever exceeds 5.
C7_AdvanceIsStageOnlyCappedAtFive ==
    /\ \A r \in token_progress : StageSet(r) => Get(r.learning_stage) <= 5
    /\ last_op.op = "advance" =>
         \A r \in last_op.before :
            IF r.status = LEARNING
            THEN /\ last_op.outcome = "ok"
                 /\ ProgressOf(token_progress, last_op.key) =
                      {ProgressRow(r.token_id, LEARNING,
                           Val(Min(Get(r.learning_stage) + 1, 5)))}
            ELSE /\ last_op.outcome = "ValidationError"
                 /\ ProgressOf(token_progress, last_op.key) = last_op.before

\* An advance at the ceiling, and an advance refused on a KNOWN token, have
\* both happened.
C7_Witness ==
    /\ last_op.op = "advance"
    /\ last_op.outcome = "ok"
    /\ last_op.before = {ProgressRow(last_op.key, LEARNING, Val(5))}
    /\ ProgressOf(token_progress, last_op.key) = last_op.before
    /\ \E r \in token_progress : r.status \in {KNOWN, IGNORE}

(***************************************************************************)
(* Claims about the token registry.                                        *)
(***************************************************************************)
\* C2: under any interleaving of resolve calls, tokens never holds two rows
\* with the same (language_id, norm), and every caller that has returned
\* holds the id of the one row of its (language_id, norm), never the error
\* of the lost insert (a caller whose kind differs from the row's kind, or is
\* no kind at all, gets the ValidationError of the registry's contract).
C2_OneTokenPerNormAndRacersGetTheWinner ==
    /\ \A r1, r2 \in tokens :
          (r1.language_id = r2.language_id /\ r1.norm = r2.norm) => r1 = r2
    /\ \A c \in CallerIds :
          Call(c).pc = "done" =>
             LET named == TokensNamed(tokens, Call(c).language, Call(c).norm)
             IN IF Call(c).kind \in {WORD, PHRASE}
                THEN /\ named # {}
                     /\ \A r \in named :
                           IF r.kind = Call(c).kind
                           THEN Call(c).result = Found(r.id)
                           ELSE Call(c).result = Failed("ValidationError")
                ELSE Call(c).result = Failed("ValidationError")

\* Two callers raced to create the same token: one inserted it, the other
\* lost the insert, and both hold the winner's id.
C2_Witness ==
    \E c1, c2 \in CallerIds :
        /\ c1 # c2
        /\ Call(c1).pc = "done" /\ Call(c2).pc = "done"
        /\ ~Call(c1).raced /\ Call(c2).raced
        /\ Call(c1).result.status = "ok"
        /\ Call(c2).result = Call(c1).result

(***************************************************************************)
(* Claims about the store's tables.                                        *)
(***************************************************************************)
\* C8: executing BookTotals.upsert_stmt(book_id, total_tokens, total_types)
\* (on a connection that does not refuse it for the foreign key to books)
\* leaves exactly one book_totals row for book_id, holding the given
\* total_tokens and total_types, leaves every other book's row as it was,
\* and executing it once more changes nothing.
C8_UpsertSetsOneRowAndIsIdempotent ==
    [][(last_op'.op = "upsert" /\ last_op'.outcome = "ok") =>
        LET b == last_op'.key
            row == last_op'.arg
        IN /\ TotalsOf(book_totals', b) = {row}
           /\ \A other \in BookIds \ {b} :
                 TotalsOf(book_totals', other) = TotalsOf(book_totals, other)
           /\ Cardinality(book_totals') =
                 Cardinality({r.book_id : r \in book_totals} \cup {b})
           /\ upsert_stmt(book_totals', b, row.total_tokens, row.total_types)
                 = book_totals']_vars

\* An upsert has overwritten both columns of an existing row while another
\* book's row stood by.
C8_Witness ==
    /\ last_op.op = "upsert"
    /\ last_op.outcome = "ok"
    /\ last_op.before = TRUE
    /\ \E r \in book_totals : r.book_id # last_op.key
    /\ TotalsOf(book_totals, last_op.key) = {last_op.arg}

\* C9: in every committed state every book_vocab row has token_count >= 1
\* and there is at most one row per (book_id, token_id); a write of a row
\* with token_count <= 0 is not accepted.
C9_VocabCountsPositive ==
    /\ \A r \in book_vocab : r.token_count >= 1
    /\ \A r1, r2 \in book_vocab :
          (r1.book_id = r2.book_id /\ r1.token_id = r2.token_id) => r1 = r2
    /\ (last_op.op = "insertVocab" /\ last_op.arg.token_count <= 0)
          => last_op.outcome = "ConstraintViolation"

\* C10: after a committed delete of a book no chapters, book_vocab or
\* book_totals row references it, and tokens and token_progress are as they
\* were.
C10_DeleteBookRemovesDependents ==
    (last_op.op = "deleteBook" /\ last_op.outcome = "ok") =>
        /\ last_op.key \notin books
        /\ \A r \in chapters : r.book_id # last_op.key
        /\ VocabOf(book_vocab, last_op.key) = {}
        /\ TotalsOf(book_totals, last_op.key) = {}
        /\ tokens = last_op.before.tokens
        /\ token_progress = last_op.before.token_progress

(***************************************************************************)
(* Claims about reindex.                                                   *)
(***************************************************************************)
Occurrences(stream, norm) ==
    Cardinality({i \in 1..Len(stream) : stream[i] = norm})

NormsOf(stream) == {stream[i] : i \in 1..Len(stream)}

\* The index and totals of book b for a token stream, from the stream alone.
ExpectedVocab(b, stream) ==
    {VocabRow(b, r.id, Occurrences(stream, r.norm)) :
        r \in {x \in tokens : x.language_id = BookLanguage(b)
                               /\ x.norm \in NormsOf(stream)}}

ExpectedTotals(b, stream) ==
    {TotalsRow(b, Len(stream), Cardinality(NormsOf(stream)))}

RowsChange(b) ==
    \/ VocabOf(book_vocab', b) # VocabOf(book_vocab, b)
    \/ TotalsOf(book_totals', b) # TotalsOf(book_totals, b)

\* C3: in every state a reader sees, after any sequence of reindex calls,
\* each book's book_totals row has total_tokens equal to the sum of
\* token_count over the book's book_vocab rows and total_types equal to the
\* number of those rows.
C3_TotalsMatchVocab ==
    \A b \in IndexedBooks :
        LET v == VocabOf(book_vocab, b)
            t == TotalsOf(book_totals, b)
        IN /\ Cardinality(t) <= 1
           /\ v # {} => t # {}
           /\ \A r \in t : /\ r.total_tokens = SumCounts(v)
                           /\ r.total_types = Cardinality(v)

\* A book was indexed with one token occurring twice (totals 2 and 1), and a
\* second reindex that replaces that token by another stands before its
\* commit.
C3_Witness ==
    \E b \in IndexedBooks :
        /\ TotalsOf(book_totals, b) = {TotalsRow(b, 2, 1)}
        /\ \E r \in VocabOf(book_vocab, b) : r.token_count = 2
        /\ Tx(b).pc = "commit"
        /\ Tx(b).writes = 2
        /\ Tx(b).totals = {TotalsRow(b, 1, 1)}

\* C4: reindex(book) is atomic.  While a reindex is under way a reader of the
\* book's book_vocab and book_totals rows sees the rows as they were before
\* the call; the rows change only in the commit, and then to the complete
\* index and totals of the stream; a reindex that fails or is cancelled
\* leaves them as they were.
C4_ReindexAtomic ==
    [][\A b \in IndexedBooks :
          /\ Tx(b).pc' # "idle" =>
                /\ VocabOf(book_vocab', b) = Tx(b).pre.vocab'
                /\ TotalsOf(book_totals', b) = Tx(b).pre.totals'
          /\ RowsChange(b) =>
                /\ Tx(b).pc = "commit"
                /\ Tx(b).pc' = "idle"
                /\ VocabOf(book_vocab', b) = ExpectedVocab(b, Tx(b).stream)
                /\ TotalsOf(book_totals', b) = ExpectedTotals(b, Tx(b).stream)
          /\ (Tx(b).pc \notin {"idle", "commit"} /\ Tx(b).pc' = "idle") =>
                ~RowsChange(b)]_vars

\* A reindex stands before its commit with staged rows and totals that
\* differ from the non-empty index that readers still see.
C4_Witness ==
    \E b \in IndexedBooks :
        /\ Tx(b).pc = "commit"
        /\ Tx(b).writes > 0
        /\ VocabOf(book_vocab, b) # {}
        /\ Tx(b).vocab # VocabOf(book_vocab, b)
        /\ Tx(b).totals # TotalsOf(book_totals, b)

\* C5: a reindex whose token stream is the one the book was last indexed
\* with ends without inserting, changing or deleting a book_vocab row, and
\* leaves the book's book_vocab rows and book_totals row as they were.
C5_ReindexIdempotent ==
    [][\A b \in IndexedBooks :
          (/\ Tx(b).pc = "commit"
           /\ Tx(b).pc' = "idle"
           /\ indexed[b] = Val(Tx(b).stream))
          => /\ ~RowsChange(b)
             /\ Tx(b).writes = 0
             /\ Tx(b).vocab = ExpectedVocab(b, Tx(b).stream)
             /\ Tx(b).totals = ExpectedTotals(b, Tx(b).stream)]_vars

\* A book holding two index rows is reindexed with its content unchanged and
\* stands before the commit.
C5_Witness ==
    \E b \in IndexedBooks :
        /\ Tx(b).pc = "commit"
        /\ indexed[b] = Val(Tx(b).stream)
        /\ Cardinality(VocabOf(book_vocab, b)) = 2

=============================================================================
